---- MODULE Spec2Model ----
(***************************************************************************)
(* Model of neurodsp/timefrequency.py: phase_by_time, amp_by_time and      *)
(* freq_by_time, with their helpers _get_filt_passtype and                 *)
(* _hilbert_ignore_nan.                                                    *)
(*                                                                         *)
(* One call of one of the three public functions is one behaviour: Init    *)
(* draws the arguments, and the actions are the steps of the call in       *)
(* source order.  filter_signal and scipy.signal.hilbert are external:     *)
(* their results are drawn nondeterministically within their contracts.    *)
(*                                                                         *)
(* Numbers.  A sample is either NaN or a number.  Angles are counted in    *)
(* units of pi/PI, and are held in a small binary floating-point format    *)
(* of MantBits significant bits (round to nearest, ties to even), the      *)
(* format of numpy's float64 scaled down, so that the rounding of          *)
(* np.diff and of "+ 2 * np.pi" is part of the model.  A complex sample    *)
(* of the analytic signal is represented by its argument.                  *)
(***************************************************************************)
EXTENDS Integers, Sequences, FiniteSets

\* ---- bounds of the model
MaxN == 4
MaxK == 3
MantBits == 3
MaxExp == 6

\* ---- values
None == 0
NaN == -9999
PI == 16
TwoPi == 2 * PI

CutoffVals == {1, 2}
FsVals == {1, 2}
SampleVals == {1}
\* the arguments drawn for a defined analytic sample: pi, 0 and the
\* representable number just below 0
PhaseVals == {-1, 0, PI}
Funcs == {"phase_by_time", "amp_by_time", "freq_by_time"}

VARIABLES
    func,                    \* which public function was called
    sig, fs, f_range,        \* its arguments
    hilbert_increase_n,
    remove_edge_artifacts,
    pc,                      \* position in the call
    pass_type,               \* result of _get_filt_passtype
    filter_invoked,          \* filter_signal has been called
    sig_filt, kernel,        \* result of filter_signal (kernel: its length)
    sig_nonan,               \* _hilbert_ignore_nan: the slice handed to the transform
    n_components,            \* _hilbert_ignore_nan: transform length (0: not given)
    hilbert_calls,           \* number of calls of scipy.signal.hilbert
    n_written,               \* _hilbert_ignore_nan: samples written to sig_hilb
    sig_hilb,                \* result of _hilbert_ignore_nan
    pha,                     \* freq_by_time: result of its phase_by_time call
    phadiff,                 \* freq_by_time: wrapped differences
    ret,                     \* the returned series
    err                      \* the exception raised, "" if none

vars == <<func, sig, fs, f_range, hilbert_increase_n, remove_edge_artifacts, pc,
          pass_type, filter_invoked, sig_filt, kernel, sig_nonan, n_components,
          hilbert_calls, n_written, sig_hilb, pha, phadiff, ret, err>>

\* ---- floating point

\* spacing of the representable numbers around a >= 0
Ulp(a) ==
    LET e == CHOOSE k \in 0..MaxExp :
                 /\ a < 2^(MantBits + k)
                 /\ (k = 0 \/ a >= 2^(MantBits + k - 1))
    IN 2^e

RoundAbs(a) ==
    LET u == Ulp(a)
        lo == (a \div u) * u
        hi == lo + u
    IN IF a = lo THEN a
       ELSE IF 2 * a < lo + hi THEN lo
       ELSE IF 2 * a > lo + hi THEN hi
       ELSE IF (lo \div u) % 2 = 0 THEN lo ELSE hi

\* round to nearest representable number, ties to even
Round(x) == IF x >= 0 THEN RoundAbs(x) ELSE -RoundAbs(-x)

FSub(a, b) == IF a = NaN \/ b = NaN THEN NaN ELSE Round(a - b)
FAdd(a, b) == IF a = NaN \/ b = NaN THEN NaN ELSE Round(a + b)
FMul(a, b) == IF a = NaN \/ b = NaN THEN NaN ELSE Round(a * b)

\* ---- sequences, with Python's 0-based half-open slices

MinOf(S) == CHOOSE x \in S : \A y \in S : x <= y
MaxOf(S) == CHOOSE x \in S : \A y \in S : x >= y
Clip(i, n) == IF i < 0 THEN 0 ELSE IF i > n THEN n ELSE i

\* s[a:b] for 0 <= a, b
Slice(s, a, b) ==
    LET lo == Clip(a, Len(s))
        hi == Clip(b, Len(s))
    IN IF hi <= lo THEN <<>> ELSE [i \in 1..(hi - lo) |-> s[lo + i]]

\* np.ones(n) * np.nan
NanArray(n) == [i \in 1..n |-> NaN]

\* s with s[a:b] = v (a scalar), 0 <= a, b
FillSlice(s, a, b, v) ==
    LET lo == Clip(a, Len(s))
        hi == Clip(b, Len(s))
    IN [i \in 1..Len(s) |-> IF lo < i /\ i <= hi THEN v ELSE s[i]]

\* ---- _get_filt_passtype

\* variant: the cutoffs compared with > for >=
get_filt_passtype_gt(fr) ==
    IF fr[1] = None THEN "lowpass"
    ELSE IF fr[2] = None THEN "highpass"
    ELSE IF fr[1] > fr[2] THEN "raise"
    ELSE "bandpass"

\* the pass type, or "raise" for the ValueError
get_filt_passtype(fr) ==
    IF fr[1] = None THEN "lowpass"
    ELSE IF fr[2] = None THEN "highpass"
    ELSE IF fr[1] >= fr[2] THEN "raise"
    ELSE "bandpass"

\* ---- _hilbert_ignore_nan

\* variant: without the isnan test
where_not_nan_all(s) == {i \in 0..(Len(s) - 1) : TRUE}

\* np.where(~np.isnan(sig))[0], as the set of its (0-based) indices
where_not_nan(s) == {i \in 0..(Len(s) - 1) : s[i + 1] # NaN}

\* int(math.log(n, 2)) for n >= 1
log2int(n) == CHOOSE e \in 0..n : 2^e <= n /\ n < 2^(e + 1)

\* variant: without the + 1
NComponents_nopad(sig_len) == 2^log2int(sig_len)

\* n_components = 2**(int(math.log(sig_len, 2)) + 1)
NComponents(sig_len) == 2^(log2int(sig_len) + 1)

\* The first k samples of scipy.signal.hilbert(x, n): x is cut or zero-padded
\* to n samples, the result has n samples, and a NaN among the samples
\* used makes every sample of the result NaN (the transform is an FFT).
\* Otherwise every sample is some defined complex number.
HilbertHead(x, n, k) ==
    LET m == IF k < n THEN k ELSE n
        used == Slice(x, 0, n)
    IN IF \E i \in 1..Len(used) : used[i] = NaN
       THEN {NanArray(m)}
       ELSE [1..m -> PhaseVals]

\* variant: written at the start of the array
WriteBack_at0(base, first, h) ==
    [i \in 1..Len(base) |-> IF i <= Len(h) THEN h[i] ELSE base[i]]

\* sig_hilb[first:first+len(h)] = h
WriteBack(base, first, h) ==
    [i \in 1..Len(base) |->
        IF first < i /\ i <= first + Len(h) THEN h[i - first] ELSE base[i]]

\* ---- phase_by_time, amp_by_time

\* np.angle, sample-wise: the argument of a complex sample, which is what
\* represents the sample here; the angle of NaN is NaN
angle(z) == z

\* np.abs, sample-wise: a defined non-negative number, whose value is not modelled
absval(z) == IF z = NaN THEN NaN ELSE 1

\* variant: floor for ceil
N_rmv_floor(K) == K \div 2

\* N_rmv = int(np.ceil(len(kernel) / 2))
N_rmv(K) == (K + 1) \div 2

\* start of the slice s[-n:]: -0 is 0, and a start before the array is clipped
NegStart(n, len) == IF n = 0 THEN 0 ELSE Clip(len - n, len)

\* s[:n] = np.nan; s[-n:] = np.nan
MaskEdges(s, n) ==
    FillSlice(FillSlice(s, 0, n, NaN), NegStart(n, Len(s)), Len(s), NaN)

\* ---- freq_by_time

\* np.diff
Diff(s) ==
    IF Len(s) <= 1 THEN <<>>
    ELSE [i \in 1..(Len(s) - 1) |-> FSub(s[i + 1], s[i])]

\* variant: phadiff > 0 for phadiff < 0
WrapOne_positive(d) ==
    IF d # NaN /\ d > 0 THEN FAdd(d, TwoPi) ELSE d

\* phadiff[phadiff < 0] = phadiff[phadiff < 0] + 2 * np.pi, for one sample
\* (NaN < 0 is False)
WrapOne(d) ==
    IF d # NaN /\ d < 0 THEN FAdd(d, TwoPi) ELSE d

Wrap(s) == [i \in 1..Len(s) |-> WrapOne(s[i])]

\* fs * d / (2 * np.pi), in units of 1/TwoPi Hz: TwoPi is a power of two
\* here, so the division is exact and only the product is rounded
Freq(rate, d) == FMul(rate, d)

\* variant: NaN appended
InsertNan_append(s) == Append(s, NaN)

\* variant: no NaN inserted
InsertNan_none(s) == s

\* np.insert(i_f, 0, np.nan)
InsertNan(s) == <<NaN>> \o s

\* ---- the call

Cutoffs == {None} \cup CutoffVals

Init ==
    /\ func \in Funcs
    /\ \E n \in 0..MaxN : sig \in [1..n -> SampleVals]
    /\ fs \in FsVals
    /\ f_range \in Cutoffs \X Cutoffs
    /\ hilbert_increase_n \in BOOLEAN
    /\ remove_edge_artifacts \in BOOLEAN
    /\ pc = "start"
    /\ pass_type = "unset"
    /\ filter_invoked = FALSE
    /\ sig_filt = <<>>
    /\ kernel = 0
    /\ sig_nonan = <<>>
    /\ n_components = 0
    /\ hilbert_calls = 0
    /\ n_written = 0
    /\ sig_hilb = <<>>
    /\ pha = <<>>
    /\ phadiff = <<>>
    /\ ret = <<>>
    /\ err = ""

\* pass_type = _get_filt_passtype(f_range)
GetFiltPasstype ==
    /\ pc = "start"
    /\ LET t == get_filt_passtype(f_range)
       IN IF t = "raise"
          THEN /\ pc' = "error"
               /\ err' = "ValueError: cutoff"
               /\ UNCHANGED pass_type
          ELSE /\ pc' = "classified"
               /\ pass_type' = t
               /\ UNCHANGED err
    /\ UNCHANGED <<func, sig, fs, f_range, hilbert_increase_n, remove_edge_artifacts,
                   filter_invoked, sig_filt, kernel, sig_nonan, n_components,
                   hilbert_calls, n_written, sig_hilb, pha, phadiff, ret>>

\* sig_filt, kernel = filter_signal(sig, fs, pass_type, ...,
\* remove_edge_artifacts=False, return_kernel=True): a signal as long as sig,
\* each sample NaN or defined, and a kernel of at least one coefficient.
\* Which arguments filter_signal accepts is its own business: for every
\* call it may return (here) or raise (FilterSignalRaises).
FilterSignal ==
    /\ pc = "classified"
    /\ filter_invoked' = TRUE
    /\ sig_filt' \in [1..Len(sig) -> {NaN} \cup SampleVals]
    /\ kernel' \in 1..MaxK
    /\ pc' = "filtered"
    /\ UNCHANGED <<func, sig, fs, f_range, hilbert_increase_n, remove_edge_artifacts,
                   pass_type, sig_nonan, n_components, hilbert_calls, n_written,
                   sig_hilb, pha, phadiff, ret, err>>

\* filter_signal raises (its own checks of the cutoffs, the transition band,
\* the filter length): the exception propagates
FilterSignalRaises ==
    /\ pc = "classified"
    /\ filter_invoked' = TRUE
    /\ pc' = "error"
    /\ err' = "FilterError"
    /\ UNCHANGED <<func, sig, fs, f_range, hilbert_increase_n, remove_edge_artifacts,
                   pass_type, sig_filt, kernel, sig_nonan, n_components,
                   hilbert_calls, n_written, sig_hilb, pha, phadiff, ret>>

\* _hilbert_ignore_nan(sig_filt, hilbert_increase_n)
HilbertIgnoreNan ==
    /\ pc = "filtered"
    /\ LET idx == where_not_nan(sig_filt)
       IN IF idx = {}
          THEN \* [0][0] of an empty index array
               /\ pc' = "error"
               /\ err' = "IndexError"
               /\ UNCHANGED <<sig_nonan, n_components, hilbert_calls, n_written, sig_hilb>>
          ELSE LET first_nonan == MinOf(idx)
                   last_nonan == MaxOf(idx) + 1
                   nonan == Slice(sig_filt, first_nonan, last_nonan)
                   sig_len == Len(nonan)
                   n == IF hilbert_increase_n THEN NComponents(sig_len) ELSE sig_len
               IN \E h \in HilbertHead(nonan, n, sig_len) :
                     /\ sig_nonan' = nonan
                     /\ n_components' = IF hilbert_increase_n THEN n ELSE 0
                     /\ hilbert_calls' = hilbert_calls + 1
                     /\ IF Len(h) = last_nonan - first_nonan
                        THEN /\ sig_hilb' = WriteBack(NanArray(Len(sig_filt)), first_nonan, h)
                             /\ n_written' = Len(h)
                             /\ pc' = "transformed"
                             /\ UNCHANGED err
                        ELSE IF Len(h) = 1
                        THEN \* a single value is broadcast over the slice
                             /\ sig_hilb' = FillSlice(NanArray(Len(sig_filt)),
                                                      first_nonan, last_nonan, h[1])
                             /\ n_written' = last_nonan - first_nonan
                             /\ pc' = "transformed"
                             /\ UNCHANGED err
                        ELSE /\ pc' = "error"
                             /\ err' = "ValueError: broadcast"
                             /\ UNCHANGED <<sig_hilb, n_written>>
    /\ UNCHANGED <<func, sig, fs, f_range, hilbert_increase_n, remove_edge_artifacts,
                   pass_type, filter_invoked, sig_filt, kernel, pha, phadiff, ret>>

\* the edge removal of phase_by_time and amp_by_time
RemoveEdges(s) ==
    IF remove_edge_artifacts THEN MaskEdges(s, N_rmv(kernel)) ELSE s

\* phase_by_time, from np.angle to its return; freq_by_time's call of it
\* returns into pha
PhaseByTime ==
    /\ pc = "transformed"
    /\ func \in {"phase_by_time", "freq_by_time"}
    /\ LET p == RemoveEdges([i \in 1..Len(sig_hilb) |-> angle(sig_hilb[i])])
       IN IF func = "phase_by_time"
          THEN /\ ret' = p
               /\ pc' = "done"
               /\ UNCHANGED pha
          ELSE /\ pha' = p
               /\ pc' = "pha_returned"
               /\ UNCHANGED ret
    /\ UNCHANGED <<func, sig, fs, f_range, hilbert_increase_n, remove_edge_artifacts,
                   pass_type, filter_invoked, sig_filt, kernel, sig_nonan, n_components,
                   hilbert_calls, n_written, sig_hilb, phadiff, err>>

\* amp_by_time, from np.abs to its return
AmpByTime ==
    /\ pc = "transformed"
    /\ func = "amp_by_time"
    /\ ret' = RemoveEdges([i \in 1..Len(sig_hilb) |-> absval(sig_hilb[i])])
    /\ pc' = "done"
    /\ UNCHANGED <<func, sig, fs, f_range, hilbert_increase_n, remove_edge_artifacts,
                   pass_type, filter_invoked, sig_filt, kernel, sig_nonan, n_components,
                   hilbert_calls, n_written, sig_hilb, pha, phadiff, err>>

\* freq_by_time, after its phase_by_time call
FreqByTime ==
    /\ pc = "pha_returned"
    /\ LET d == Wrap(Diff(pha))
       IN /\ phadiff' = d
          /\ ret' = InsertNan([i \in 1..Len(d) |-> Freq(fs, d[i])])
    /\ pc' = "done"
    /\ UNCHANGED <<func, sig, fs, f_range, hilbert_increase_n, remove_edge_artifacts,
                   pass_type, filter_invoked, sig_filt, kernel, sig_nonan, n_components,
                   hilbert_calls, n_written, sig_hilb, pha, err>>

Next ==
    \/ GetFiltPasstype
    \/ FilterSignal
    \/ FilterSignalRaises
    \/ HilbertIgnoreNan
    \/ PhaseByTime
    \/ AmpByTime
    \/ FreqByTime

Spec == Init /\ [][Next]_vars

\* ---- properties

Low == f_range[1]
High == f_range[2]

\* every sample of s is defined
FullyDefined(s) == \A i \in 1..Len(s) : s[i] # NaN

\* s is a NaN prefix, at least one defined sample, and a NaN suffix
NanPadded(s) ==
    \E a \in 1..Len(s) : \E b \in a..Len(s) :
        \A i \in 1..Len(s) : (s[i] # NaN) <=> (a <= i /\ i <= b)

NumDefined(s) == Cardinality({i \in 1..Len(s) : s[i] # NaN})

IsPowerOfTwo(m) == \E e \in 0..m : m = 2^e

\* filter_signal has returned a signal
Filtered == filter_invoked /\ err # "FilterError"

\* at least one cutoff is given
RangeGiven == Low # None \/ High # None

\* C1: once _get_filt_passtype has run, (None, high) gave 'lowpass',
\* (low, None) gave 'highpass', low < high gave 'bandpass', and low >= high
\* raised the ValueError and gave no pass type.
C1_PassType ==
    pc # "start" =>
        /\ (Low = None /\ High # None) =>
               (pass_type = "lowpass" /\ err # "ValueError: cutoff")
        /\ (Low # None /\ High = None) =>
               (pass_type = "highpass" /\ err # "ValueError: cutoff")
        /\ (Low # None /\ High # None /\ Low < High) =>
               (pass_type = "bandpass" /\ err # "ValueError: cutoff")
        /\ (Low # None /\ High # None /\ Low >= High) =>
               (pc = "error" /\ err = "ValueError: cutoff" /\ pass_type = "unset")

C1_Witness ==
    /\ pc = "error" /\ err = "ValueError: cutoff"
    /\ Low # None /\ Low = High

\* C2: with f_range = (None, None), classification raises the ValueError, no
\* pass type is returned and filter_signal is never called.
C2_BothAbsentRaises ==
    (pc # "start" /\ Low = None /\ High = None) =>
        (pc = "error" /\ err = "ValueError: cutoff" /\ pass_type = "unset"
         /\ ~filter_invoked)

\* C3: whenever one of the three functions returns for a signal of N >= 1
\* samples, the returned series has N samples.
C3_LengthPreserved ==
    (pc = "done" /\ Len(sig) >= 1) => Len(ret) = Len(sig)

C3_Witness ==
    /\ RangeGiven
    /\ pc = "done" /\ func = "freq_by_time"
    /\ Len(sig) = 1 /\ Len(ret) = 1
    /\ hilbert_increase_n /\ remove_edge_artifacts

\* C4: phase_by_time and amp_by_time with remove_edge_artifacts=True and a
\* fully defined filtered signal of N samples return, and sample i of the
\* result is NaN iff i < N_rmv or i >= N - N_rmv, with N_rmv = ceil(K/2).
C4_EdgeMask ==
    (/\ func \in {"phase_by_time", "amp_by_time"}
     /\ remove_edge_artifacts
     /\ Filtered /\ Len(sig_filt) >= 1 /\ FullyDefined(sig_filt)
     /\ pc \notin {"filtered", "transformed"}) =>
        /\ pc = "done"
        /\ Len(ret) = Len(sig_filt)
        /\ \A i \in 0..(Len(ret) - 1) :
               (ret[i + 1] = NaN) <=>
                   (i < (kernel + 1) \div 2 \/ i >= Len(ret) - (kernel + 1) \div 2)

\* the mask is wider than the series
C4_Witness ==
    /\ RangeGiven
    /\ pc = "done" /\ func = "amp_by_time" /\ remove_edge_artifacts
    /\ FullyDefined(sig_filt)
    /\ Len(ret) = 1 /\ kernel = 3 /\ ret[1] = NaN

\* the case of C5: freq_by_time has returned, with edge removal, for a fully
\* defined filtered signal longer than the two masked edges
C5_Case ==
    /\ func = "freq_by_time" /\ pc = "done"
    /\ remove_edge_artifacts
    /\ FullyDefined(sig_filt)
    /\ Len(sig_filt) > 2 * ((kernel + 1) \div 2)

\* C5 as stated: in that case the NaN samples of the result are exactly
\* those at [0, N_rmv) and [N - N_rmv, N) (stated for calls that give at
\* least one cutoff).
C5_NanExactlyAtEdges ==
    (RangeGiven /\ C5_Case) =>
        /\ Len(ret) = Len(sig_filt)
        /\ \A i \in 0..(Len(ret) - 1) :
               (ret[i + 1] = NaN) <=>
                   (i < (kernel + 1) \div 2 \/ i >= Len(ret) - (kernel + 1) \div 2)

\* C5 as amended: the NaN samples are exactly those at [0, N_rmv] and
\* [N - N_rmv, N): index N_rmv is NaN too, its difference being taken
\* against the masked phase sample N_rmv - 1.
C5_NanAtEdgesAndFirstDiff ==
    C5_Case =>
        /\ Len(ret) = Len(sig_filt)
        /\ \A i \in 0..(Len(ret) - 1) :
               (ret[i + 1] = NaN) <=>
                   (i <= (kernel + 1) \div 2 \/ i >= Len(ret) - (kernel + 1) \div 2)

C5_Witness ==
    /\ RangeGiven
    /\ C5_Case
    /\ Len(ret) = 4 /\ kernel = 2
    /\ ret[2] = NaN /\ ret[3] # NaN

\* C6: the result of freq_by_time has NaN at index 0, with or without edge
\* removal; without it and for a fully defined filtered signal, index 0 is
\* the only NaN.
C6_LeadingNan ==
    (func = "freq_by_time" /\ pc = "done") =>
        /\ Len(ret) >= 1
        /\ ret[1] = NaN
        /\ (~remove_edge_artifacts /\ FullyDefined(sig_filt)) =>
               \A i \in 2..Len(ret) : ret[i] # NaN

C6_Witness ==
    /\ RangeGiven
    /\ func = "freq_by_time" /\ pc = "done"
    /\ ~remove_edge_artifacts /\ FullyDefined(sig_filt)
    /\ Len(ret) = 3 /\ ret[1] = NaN /\ ret[2] # NaN /\ ret[3] # NaN

\* the defined phases of freq_by_time lie in (-pi, pi]
PhaseInRange == \A i \in 1..Len(pha) : pha[i] # NaN => (-PI < pha[i] /\ pha[i] <= PI)

\* C7 as stated: every defined wrapped difference lies in [0, 2*pi), and
\* every defined frequency sample in [0, fs) (stated for calls that give at
\* least one cutoff).
C7_WrappedBelowTwoPi ==
    (RangeGiven /\ func = "freq_by_time" /\ pc = "done" /\ PhaseInRange) =>
        /\ \A j \in 1..Len(phadiff) :
               phadiff[j] # NaN => (0 <= phadiff[j] /\ phadiff[j] < TwoPi)
        /\ \A i \in 1..Len(ret) :
               ret[i] # NaN => (0 <= ret[i] /\ ret[i] < fs * TwoPi)

\* C7 as amended: every defined wrapped difference lies in [0, 2*pi], and
\* every defined frequency sample between 0 and the frequency computed
\* for a difference of 2*pi.
C7_WrappedAtMostTwoPi ==
    (func = "freq_by_time" /\ pc = "done" /\ PhaseInRange) =>
        /\ \A j \in 1..Len(phadiff) :
               phadiff[j] # NaN => (0 <= phadiff[j] /\ phadiff[j] <= TwoPi)
        /\ \A i \in 1..Len(ret) :
               ret[i] # NaN => (0 <= ret[i] /\ ret[i] <= Freq(fs, TwoPi))

\* a negative difference has been wrapped
C7_Witness ==
    /\ RangeGiven
    /\ func = "freq_by_time" /\ pc = "done" /\ PhaseInRange
    /\ Len(pha) >= 2 /\ pha[1] = PI /\ pha[2] = 0
    /\ phadiff[1] = PI

\* C8: on a signal made of a NaN prefix, L >= 1 defined samples and a NaN
\* suffix, _hilbert_ignore_nan returns a series of the same length that is
\* NaN exactly where the signal is, transforms the L defined samples only,
\* and leaves the signal unchanged.
C8_NanPreserved ==
    [][(pc = "filtered" /\ NanPadded(sig_filt)) =>
          /\ pc' = "transformed"
          /\ sig_filt' = sig_filt
          /\ Len(sig_hilb') = Len(sig_filt)
          /\ \A i \in 1..Len(sig_filt) : (sig_hilb'[i] = NaN) <=> (sig_filt[i] = NaN)
          /\ FullyDefined(sig_nonan')
          /\ Len(sig_nonan') = NumDefined(sig_filt)
          /\ hilbert_calls' = 1]_vars

C8_Witness ==
    /\ RangeGiven
    /\ pc = "transformed" /\ NanPadded(sig_filt)
    /\ hilbert_increase_n
    /\ Len(sig_filt) = 4 /\ sig_filt[1] = NaN /\ sig_filt[4] = NaN
    /\ sig_hilb[1] = NaN /\ sig_hilb[2] # NaN /\ sig_hilb[3] # NaN /\ sig_hilb[4] = NaN

\* C9: when the filtered signal has no defined sample, _hilbert_ignore_nan
\* raises before any transform, and nothing is returned.
C9_NoValidSamples ==
    (Filtered /\ pc # "filtered" /\ NumDefined(sig_filt) = 0) =>
        /\ pc = "error" /\ err = "IndexError"
        /\ hilbert_calls = 0
        /\ sig_hilb = <<>> /\ ret = <<>>

C9_Witness ==
    /\ RangeGiven
    /\ pc = "error" /\ err = "IndexError"
    /\ Len(sig_filt) = 2 /\ NumDefined(sig_filt) = 0

\* C10: with hilbert_increase_n=True the transform length M is the smallest
\* power of two above the number L of samples transformed, L < M <= 2*L,
\* and L values are written back.
C10_NextPowerOfTwo ==
    (hilbert_increase_n /\ Filtered /\ pc # "filtered" /\ NumDefined(sig_filt) >= 1) =>
        LET L == Len(sig_nonan)
            M == n_components
        IN /\ L >= 1
           /\ IsPowerOfTwo(M)
           /\ L < M /\ M <= 2 * L
           /\ \A m \in (L + 1)..(2 * L) : IsPowerOfTwo(m) => M <= m
           /\ IsPowerOfTwo(L) => M = 2 * L
           /\ pc # "error"
           /\ n_written = L

C10_Witness ==
    /\ RangeGiven
    /\ hilbert_increase_n /\ pc = "transformed"
    /\ Len(sig_nonan) = 3 /\ n_components = 4 /\ n_written = 3

====
